---------------------------- MODULE Spec2Model ----------------------------
(***************************************************************************)
(* A model of src/controller.py: the cascaded NonlinearController of a     *)
(* multirotor (trajectory sampling, lateral, altitude, roll/pitch, body    *)
(* rate and yaw control, and the rotation matrix they share).              *)
(*                                                                         *)
(* Numbers.  The program computes in float64.  The model computes in exact *)
(* rational arithmetic extended with the three non-finite values a float64 *)
(* division produces: a number is a record [n, d] in lowest terms with     *)
(* d >= 0; d = 0 stands for +inf (n = 1), -inf (n = -1) and NaN (n = 0).   *)
(* Rounding and the sign of zero are not modelled.  Trigonometric values   *)
(* are taken from a table of angles whose sine and cosine are rational.    *)
(***************************************************************************)
EXTENDS Integers, Sequences, FiniteSets

VARIABLES
    z_error_sum,   \* self.z_error_sum, the altitude integral accumulator
    alt_log,       \* log: the raw error of every altitude_control call made
    call,          \* the invocation in progress or last made: method, arguments
    ret            \* what that invocation returned (Pending until it has run)

vars == <<z_error_sum, alt_log, call, ret>>

---------------------------------------------------------------------------
(* float64 arithmetic, without rounding *)

Abs(x) == IF x < 0 THEN -x ELSE x

Sign(x) == IF x < 0 THEN -1 ELSE IF x > 0 THEN 1 ELSE 0

RECURSIVE GCD(_, _)
GCD(a, b) == IF b = 0 THEN a ELSE GCD(b, a % b)

\* The number n/d in canonical form; d = 0 gives +inf, -inf or NaN by n's sign.
Rat(n, d) ==
    IF d = 0 THEN [n |-> Sign(n), d |-> 0]
    ELSE LET g == GCD(Abs(n), Abs(d))
         IN  [n |-> Sign(d) * Sign(n) * (Abs(n) \div g), d |-> Abs(d) \div g]

FromInt(k) == [n |-> k, d |-> 1]

Zero == FromInt(0)

NaN == [n |-> 0, d |-> 0]

IsNaN(x) == x.d = 0 /\ x.n = 0

IsFinite(x) == x.d > 0

RNeg(x) == [n |-> -x.n, d |-> x.d]

\* x + y; inf + inf of one sign is that inf, of opposite signs NaN.
RAdd(x, y) ==
    IF x.d = 0 /\ y.d = 0
    THEN (IF x.n = y.n THEN x ELSE NaN)
    ELSE Rat(x.n * y.d + y.n * x.d, x.d * y.d)

RSub(x, y) == RAdd(x, RNeg(y))

\* x * y; inf * 0 is NaN.
RMul(x, y) == Rat(x.n * y.n, x.d * y.d)

\* x / y; a finite non-zero x over 0 is +-inf, 0/0 and inf/inf are NaN. No
\* exception: numpy's float64 and ndarray division only warn.
RDiv(x, y) ==
    LET s == IF y.n < 0 THEN -1 ELSE 1
    IN  Rat(x.n * y.d * s, x.d * Abs(y.n))

\* x < y and x <= y; both FALSE when either side is NaN.
RLess(x, y) ==
    /\ ~IsNaN(x)
    /\ ~IsNaN(y)
    /\ IF x.d = 0 /\ y.d = 0 THEN x.n < y.n ELSE x.n * y.d < y.n * x.d

RLeq(x, y) == ~IsNaN(x) /\ ~IsNaN(y) /\ (x = y \/ RLess(x, y))

RAbs(x) == [n |-> Abs(x.n), d |-> x.d]

---------------------------------------------------------------------------
(* 3-element numpy arrays *)

Vec(v) == [i \in 1..3 |-> FromInt(v[i])]

VAdd(a, b) == [i \in 1..3 |-> RAdd(a[i], b[i])]

VSub(a, b) == [i \in 1..3 |-> RSub(a[i], b[i])]

VScale(a, k) == [i \in 1..3 |-> RMul(a[i], k)]

VDiv(a, k) == [i \in 1..3 |-> RDiv(a[i], k)]

ZeroVec == Vec(<<0, 0, 0>>)

\* seq[k] as Python reads it: 0-based, a negative k counts from the end.
PyAt(seq, k) == seq[(IF k < 0 THEN Len(seq) + k ELSE k) + 1]

---------------------------------------------------------------------------
(* trajectory_control *)

\* np.argmin(np.abs(np.array(time_trajectory) - current_time)): the 0-based
\* index of the time nearest to current_time, the first one on a tie.
argmin_farthest(time_trajectory, current_time) ==
    LET dist(i) == RAbs(RSub(PyAt(time_trajectory, i), current_time))
        idx == 0 .. Len(time_trajectory) - 1
    IN  CHOOSE i \in idx :
            /\ \A j \in idx : RLeq(dist(j), dist(i))
            /\ \A j \in idx : j < i => RLess(dist(j), dist(i))

argmin(time_trajectory, current_time) ==
    LET dist(i) == RAbs(RSub(PyAt(time_trajectory, i), current_time))
        idx == 0 .. Len(time_trajectory) - 1
    IN  CHOOSE i \in idx :
            /\ \A j \in idx : RLeq(dist(i), dist(j))
            /\ \A j \in idx : j < i => RLess(dist(i), dist(j))

\* `current_time < time_ref` with <= in its place.
Before_or_at(current_time, time_ref) == RLeq(current_time, time_ref)

\* The test `current_time < time_ref`.
Before(current_time, time_ref) == RLess(current_time, time_ref)

\* The waypoints and times the interpolation runs between, and yaw_cmd.
Segment(position_trajectory, yaw_trajectory, time_trajectory, current_time) ==
    LET ind_min == argmin(time_trajectory, current_time)
        time_ref == PyAt(time_trajectory, ind_min)
    IN  IF Before(current_time, time_ref)
        THEN [position0 |-> PyAt(position_trajectory, ind_min - 1),
              position1 |-> PyAt(position_trajectory, ind_min),
              time0     |-> PyAt(time_trajectory, ind_min - 1),
              time1     |-> PyAt(time_trajectory, ind_min),
              yaw_cmd   |-> PyAt(yaw_trajectory, ind_min - 1)]
        ELSE IF ind_min >= Len(position_trajectory) - 1
        THEN [position0 |-> PyAt(position_trajectory, ind_min),
              position1 |-> PyAt(position_trajectory, ind_min),
              time0     |-> Zero,
              time1     |-> FromInt(1),
              yaw_cmd   |-> PyAt(yaw_trajectory, ind_min)]
        ELSE [position0 |-> PyAt(position_trajectory, ind_min),
              position1 |-> PyAt(position_trajectory, ind_min + 1),
              time0     |-> PyAt(time_trajectory, ind_min),
              time1     |-> PyAt(time_trajectory, ind_min + 1),
              yaw_cmd   |-> PyAt(yaw_trajectory, ind_min)]

\* (position1 - position0) * (t - time0) / (time1 - time0) + position0
Interpolate(position0, position1, time0, time1, t) ==
    VAdd(VDiv(VScale(VSub(position1, position0), RSub(t, time0)),
              RSub(time1, time0)),
         position0)

\* (position1 - position0) / (time1 - time0)
Slope(position0, position1, time0, time1) ==
    VDiv(VSub(position1, position0), RSub(time1, time0))

\* The tuple trajectory_control returns. It has no raise: outcome is "returned"
\* for every input it can index.
trajectory_result(position_trajectory, yaw_trajectory, time_trajectory, current_time) ==
    LET s == Segment(position_trajectory, yaw_trajectory, time_trajectory, current_time)
    IN  [outcome      |-> "returned",
         position_cmd |-> Interpolate(s.position0, s.position1, s.time0, s.time1, current_time),
         velocity_cmd |-> Slope(s.position0, s.position1, s.time0, s.time1),
         yaw_cmd      |-> s.yaw_cmd]

Pending == [outcome |-> "pending"]

NoCall == [op |-> "none"]

trajectory_control ==
    /\ call.op = "trajectory_control"
    /\ ret = Pending
    /\ ret' = trajectory_result(call.position_trajectory, call.yaw_trajectory,
                                call.time_trajectory, call.current_time)
    /\ UNCHANGED <<z_error_sum, alt_log, call>>

---------------------------------------------------------------------------
(* Module constants and the gains __init__ sets *)

DRONE_MASS_KG == Rat(1, 2)

GRAVITY == Rat(-981, 100)

MAX_THRUST == FromInt(10)

z_k_p == FromInt(64)

\* np.sqrt(z_k_p) * 2 * delta with delta = 1.0
z_k_d == FromInt(16)

z_k_i == FromInt(1)

x_k_p == Rat(5, 2)

y_k_p == Rat(5, 2)

k_p_roll == Rat(2, 100)

k_p_pitch == Rat(2, 100)

k_p_yaw == Rat(5, 2)

k_p_p == Rat(1, 2)

k_p_q == Rat(1, 2)

k_p_r == Rat(1, 5)

---------------------------------------------------------------------------
(* R: the rotation matrix Rz(psi) . (Ry(theta) . Rx(phi)) *)

\* The angles the model draws attitudes from: those with rational sine and
\* cosine. "pi/2" is the exact right angle, where the cosine is 0.
Angles == {"0", "atan(3/4)", "-atan(3/4)", "pi/2", "pi"}

cos(a) ==
    CASE a = "0"          -> FromInt(1)
      [] a = "atan(3/4)"  -> Rat(4, 5)
      [] a = "-atan(3/4)" -> Rat(4, 5)
      [] a = "pi/2"       -> Zero
      [] a = "pi"         -> FromInt(-1)

sin(a) ==
    CASE a = "0"          -> Zero
      [] a = "atan(3/4)"  -> Rat(3, 5)
      [] a = "-atan(3/4)" -> Rat(-3, 5)
      [] a = "pi/2"       -> FromInt(1)
      [] a = "pi"         -> Zero

\* A @ B for 3x3 arrays
MatMul(A, B) ==
    [i \in 1..3 |-> [j \in 1..3 |->
        RAdd(RAdd(RMul(A[i][1], B[1][j]), RMul(A[i][2], B[2][j])), RMul(A[i][3], B[3][j]))]]

R(attitude) ==
    LET phi == attitude[1]
        theta == attitude[2]
        psi == attitude[3]
        One == FromInt(1)
        Rx == << <<One, Zero, Zero>>,
                 <<Zero, cos(phi), RNeg(sin(phi))>>,
                 <<Zero, sin(phi), cos(phi)>> >>
        Ry == << <<cos(theta), Zero, sin(theta)>>,
                 <<Zero, One, Zero>>,
                 <<RNeg(sin(theta)), Zero, cos(theta)>> >>
        Rz == << <<cos(psi), RNeg(sin(psi)), Zero>>,
                 <<sin(psi), cos(psi), Zero>>,
                 <<Zero, Zero, One>> >>
    IN  MatMul(Rz, MatMul(Ry, Rx))

---------------------------------------------------------------------------
(* altitude_control *)

\* The accumulation with an anti-windup reset on a sign change of the error.
accumulate_reset(error_sum, altitude_cmd, altitude) ==
    LET e == RSub(altitude_cmd, altitude)
    IN  IF error_sum.n * e.n < 0 THEN e ELSE RAdd(error_sum, e)

\* self.z_error_sum += (altitude_cmd - altitude)
accumulate(error_sum, altitude_cmd, altitude) ==
    RAdd(error_sum, RSub(altitude_cmd, altitude))

\* u_bar, from the accumulator as already updated by this call
u_bar(error_sum, altitude_cmd, vertical_velocity_cmd, altitude, vertical_velocity, acceleration_ff) ==
    RAdd(RAdd(RAdd(RMul(z_k_p, RSub(altitude_cmd, altitude)),
                   RMul(z_k_d, RSub(vertical_velocity_cmd, vertical_velocity))),
              RMul(z_k_i, error_sum)),
         acceleration_ff)

\* The raw thrust with the sign of the gravity term flipped.
thrust_raw_minus_gravity(u, r33) == RDiv(RSub(u, GRAVITY), r33)

\* (u_bar + GRAVITY) / rot_mat[2, 2]
thrust_raw(u, r33) == RDiv(RAdd(u, GRAVITY), r33)

\* A clip that bounds from below only.
np_clip_lower_only(x, lo, hi) ==
    IF IsNaN(x) THEN NaN ELSE IF RLess(x, lo) THEN lo ELSE x

\* np.clip(x, lo, hi) = minimum(maximum(x, lo), hi); a NaN stays NaN
np_clip(x, lo, hi) ==
    IF IsNaN(x) THEN NaN
    ELSE IF RLess(x, lo) THEN lo
    ELSE IF RLess(hi, x) THEN hi
    ELSE x

MinThrust == Rat(1, 10)

MaxThrustCmd == RDiv(MAX_THRUST, DRONE_MASS_KG)

altitude_control ==
    /\ call.op = "altitude_control"
    /\ ret = Pending
    /\ LET sum == accumulate(z_error_sum, call.altitude_cmd, call.altitude)
           u == u_bar(sum, call.altitude_cmd, call.vertical_velocity_cmd,
                      call.altitude, call.vertical_velocity, call.acceleration_ff)
           rot_mat == R(call.attitude)
       IN  /\ z_error_sum' = sum
           /\ ret' = [outcome |-> "returned",
                      thrust_cmd |-> np_clip(thrust_raw(u, rot_mat[3][3]),
                                             MinThrust, MaxThrustCmd)]
    /\ alt_log' = Append(alt_log, RSub(call.altitude_cmd, call.altitude))
    /\ UNCHANGED call

---------------------------------------------------------------------------
(* roll_pitch_controller *)

\* The (p_c, q_c) the method computes before it returns.
roll_pitch_raw(acceleration_cmd, attitude, thrust_cmd) ==
    LET rot_mat == R(attitude)
        R11 == rot_mat[1][1]
        R12 == rot_mat[1][2]
        R21 == rot_mat[2][1]
        R22 == rot_mat[2][2]
        R13 == rot_mat[1][3]
        R23 == rot_mat[2][3]
        R33 == rot_mat[3][3]
        b_x_c_dot == RMul(k_p_roll, RSub(RDiv(acceleration_cmd[1], thrust_cmd), R13))
        b_y_c_dot == RMul(k_p_pitch, RSub(RDiv(acceleration_cmd[2], thrust_cmd), R23))
    IN  [p_c |-> RDiv(RSub(RMul(R21, b_x_c_dot), RMul(R11, b_y_c_dot)), R33),
         q_c |-> RDiv(RSub(RMul(R22, b_x_c_dot), RMul(R12, b_y_c_dot)), R33)]

\* `return np.array([0.0,0.0])`: the first return statement; the
\* `return np.array([-p_c,-q_c])` after it is never reached.
roll_pitch_controller ==
    /\ call.op = "roll_pitch_controller"
    /\ ret = Pending
    /\ ret' = [outcome |-> "returned", rates |-> <<Zero, Zero>>]
    /\ UNCHANGED <<z_error_sum, alt_log, call>>

---------------------------------------------------------------------------
(* yaw_control *)

\* math.pi. Yaw angles are measured in units of pi, so that the remainder by
\* pi is exact: the number 3/2 stands for the angle 3*pi/2.
PI == FromInt(1)

\* math.fmod(x, y): x - trunc(x / y) * y, which has the sign of x
fmod(x, y) ==
    LET q == RDiv(x, y)
        trunc == Sign(q.n) * (Abs(q.n) \div q.d)
    IN  RSub(x, RMul(FromInt(trunc), y))

\* self.k_p_yaw * fmod(yaw_cmd - yaw, math.pi)
yaw_rate(yaw_cmd, yaw) == RMul(k_p_yaw, fmod(RSub(yaw_cmd, yaw), PI))

yaw_control ==
    /\ call.op = "yaw_control"
    /\ ret = Pending
    /\ ret' = [outcome |-> "returned", yaw_rate |-> yaw_rate(call.yaw_cmd, call.yaw)]
    /\ UNCHANGED <<z_error_sum, alt_log, call>>

---------------------------------------------------------------------------
(* lateral_position_control *)

\* A number rat + sqrt10 * sqrt(10). The derivative gains are
\* np.sqrt(2.5) * 2 * delta = sqrt(10), which is not rational.
Surd(a, b) == [rat |-> a, sqrt10 |-> b]

\* k_p * position error + k_d * velocity error + feedforward, with k_d = sqrt(10)
lateral_axis(k_p, position_cmd, position, velocity_cmd, velocity, ff) ==
    Surd(RAdd(RMul(k_p, RSub(position_cmd, position)), ff), RSub(velocity_cmd, velocity))

lateral_position_control ==
    /\ call.op = "lateral_position_control"
    /\ ret = Pending
    /\ ret' = [outcome |-> "returned",
               acceleration_cmd |->
                 <<lateral_axis(x_k_p, call.local_position_cmd[1], call.local_position[1],
                                call.local_velocity_cmd[1], call.local_velocity[1],
                                call.acceleration_ff[1]),
                   lateral_axis(y_k_p, call.local_position_cmd[2], call.local_position[2],
                                call.local_velocity_cmd[2], call.local_velocity[2],
                                call.acceleration_ff[2])>>]
    /\ UNCHANGED <<z_error_sum, alt_log, call>>

---------------------------------------------------------------------------
(* body_rate_control *)

\* control_gain * (body_rate_cmd - body_rate), elementwise
u_bar_pqr(body_rate_cmd, body_rate) ==
    LET error_pqr == VSub(body_rate_cmd, body_rate)
        control_gain == <<k_p_p, k_p_q, k_p_r>>
    IN  [i \in 1..3 |-> RMul(control_gain[i], error_pqr[i])]

body_rate_control ==
    /\ call.op = "body_rate_control"
    /\ ret = Pending
    /\ ret' = [outcome |-> "returned", moment_cmd |-> u_bar_pqr(call.body_rate_cmd, call.body_rate)]
    /\ UNCHANGED <<z_error_sum, alt_log, call>>

\* The method R called on its own.
R_method ==
    /\ call.op = "R"
    /\ ret = Pending
    /\ ret' = [outcome |-> "returned", rot_mat |-> R(call.attitude)]
    /\ UNCHANGED <<z_error_sum, alt_log, call>>

---------------------------------------------------------------------------
(* The controller object and its caller *)

MaxCalls == 3

AltitudeSamples == {FromInt(-5), FromInt(-4)}

VelocityCmdSamples == {FromInt(0), FromInt(1)}

VelocitySamples == {FromInt(0)}

FeedforwardSamples == {Zero, Rat(981, 100)}

AttitudeSamples ==
    { <<"0", "0", "0">>,
      <<"atan(3/4)", "0", "0">>,
      <<"0", "-atan(3/4)", "atan(3/4)">>,
      <<"atan(3/4)", "atan(3/4)", "pi/2">>,
      <<"pi/2", "0", "0">>,
      <<"pi", "0", "0">> }

Vec2(v) == [i \in 1..2 |-> FromInt(v[i])]

AccelerationSamples == {Vec2(<<0, 0>>), Vec2(<<1, 0>>), Vec2(<<1, -2>>)}

ThrustSamples == {Zero, MinThrust, FromInt(1), MaxThrustCmd}

YawAngleSamples == {FromInt(-1), Rat(-1, 2), Zero, Rat(1, 2), FromInt(1)}

\* The spec's two-waypoint scenario: (0,0,0) at time 0, (10,0,0) at time 10.
ScenarioQueryTimes == {FromInt(-1), FromInt(5), FromInt(10), FromInt(12)}

Invocations ==
    {[op |-> "altitude_control", altitude_cmd |-> ac, vertical_velocity_cmd |-> vc,
      altitude |-> a, vertical_velocity |-> v, attitude |-> att, acceleration_ff |-> ff] :
        ac \in AltitudeSamples, vc \in VelocityCmdSamples, a \in AltitudeSamples,
        v \in VelocitySamples, att \in AttitudeSamples, ff \in FeedforwardSamples}
    \cup
    {[op |-> "roll_pitch_controller", acceleration_cmd |-> acc, attitude |-> att,
      thrust_cmd |-> th] :
        acc \in AccelerationSamples, att \in AttitudeSamples, th \in ThrustSamples}
    \cup
    {[op |-> "yaw_control", yaw_cmd |-> yc, yaw |-> y] :
        yc \in YawAngleSamples, y \in YawAngleSamples}
    \cup
    {[op |-> "lateral_position_control", local_position_cmd |-> pc,
      local_velocity_cmd |-> vc, local_position |-> Vec2(<<0, 0>>), local_velocity |-> v,
      acceleration_ff |-> Vec2(<<0, 0>>)] :
        pc \in AccelerationSamples, vc \in AccelerationSamples,
        v \in {Vec2(<<0, 0>>), Vec2(<<0, 1>>)}}
    \cup
    {[op |-> "body_rate_control", body_rate_cmd |-> bc, body_rate |-> b] :
        bc \in {Vec(<<0, 0, 0>>), Vec(<<1, -1, 2>>)}, b \in {Vec(<<0, 0, 0>>), Vec(<<1, 0, 0>>)}}
    \cup
    {[op |-> "R", attitude |-> att] : att \in AttitudeSamples}
    \cup
    {[op |-> "trajectory_control",
      position_trajectory |-> <<Vec(<<0, 0, 0>>), Vec(<<10, 0, 0>>)>>,
      yaw_trajectory |-> <<Zero, Zero>>,
      time_trajectory |-> <<FromInt(0), FromInt(10)>>,
      current_time |-> t] : t \in ScenarioQueryTimes}

\* The caller invokes a method of the controller once the previous call has
\* returned. The model stops issuing altitude_control calls after MaxCalls.
Call ==
    /\ ret # Pending
    /\ \E c \in Invocations :
         /\ c.op = "altitude_control" => Len(alt_log) < MaxCalls
         /\ call' = c
    /\ ret' = Pending
    /\ UNCHANGED <<z_error_sum, alt_log>>

\* __init__: the accumulator starts at 0.0 and no method has been called.
Init ==
    /\ z_error_sum = Zero
    /\ alt_log = <<>>
    /\ call = NoCall
    /\ ret = [outcome |-> "idle"]

Next ==
    \/ Call
    \/ trajectory_control
    \/ lateral_position_control
    \/ altitude_control
    \/ roll_pitch_controller
    \/ body_rate_control
    \/ yaw_control
    \/ R_method

Spec == Init /\ [][Next]_vars

---------------------------------------------------------------------------
(* Inputs of trajectory_control *)

MaxLen == 3

MaxTime == 3

PositionSamples == {Vec(<<0, 0, 0>>), Vec(<<10, -5, 2>>)}

YawSamples == {FromInt(0), FromInt(1)}

\* Waypoint times: the data model keeps them non-decreasing; equal
\* neighbours are included.
TimeLists(len) ==
    {[i \in 1..len |-> FromInt(f[i])] :
        f \in {g \in [1..len -> 0..MaxTime] : \A i \in 1..(len - 1) : g[i] <= g[i + 1]}}

QueryTimes == {FromInt(k) : k \in -1 .. (MaxTime + 1)}

TrajectoryCall(p, y, tt, t) ==
    [op |-> "trajectory_control", position_trajectory |-> p, yaw_trajectory |-> y,
     time_trajectory |-> tt, current_time |-> t]

InitTrajectory ==
    /\ z_error_sum = Zero
    /\ alt_log = <<>>
    /\ \E len \in 1..MaxLen :
         \E p \in [1..len -> PositionSamples], y \in [1..len -> YawSamples],
            tt \in TimeLists(len), t \in QueryTimes :
              call = TrajectoryCall(p, y, tt, t)
    /\ ret = Pending

SpecTrajectory == InitTrajectory /\ [][trajectory_control]_vars

---------------------------------------------------------------------------
(* Properties of trajectory_control, checked under SpecTrajectory *)

StrictlyIncreasing(tt) == \A i \in 1..(Len(tt) - 1) : RLess(tt[i], tt[i + 1])

TrajectoryDone == call.op = "trajectory_control" /\ ret.outcome # "pending"

\* C1: with strictly increasing waypoint times, a query at or after the last
\* waypoint time returns the last position and the zero velocity, however
\* far past the end the query is.
C1_EndpointPinning ==
    (/\ TrajectoryDone
     /\ StrictlyIncreasing(call.time_trajectory)
     /\ RLeq(PyAt(call.time_trajectory, -1), call.current_time))
    => /\ ret.position_cmd = PyAt(call.position_trajectory, -1)
       /\ ret.velocity_cmd = ZeroVec

\* A three-waypoint trajectory queried strictly after its last time.
C1_Witness ==
    /\ TrajectoryDone
    /\ Len(call.time_trajectory) = 3
    /\ StrictlyIncreasing(call.time_trajectory)
    /\ RLess(PyAt(call.time_trajectory, -1), call.current_time)
    /\ PyAt(call.position_trajectory, -1) # PyAt(call.position_trajectory, 0)
    /\ ret.position_cmd = PyAt(call.position_trajectory, -1)
    /\ ret.velocity_cmd = ZeroVec

\* C2: with strictly increasing times, a query t with time[i] <= t < time[i+1]
\* returns the linear interpolation on the segment (i, i+1) and that
\* segment's constant velocity, whichever of the two waypoints is nearer.
C2_SegmentInterpolation ==
    (TrajectoryDone /\ StrictlyIncreasing(call.time_trajectory))
    => \A i \in 1..(Len(call.time_trajectory) - 1) :
         LET t  == call.current_time
             t0 == call.time_trajectory[i]
             t1 == call.time_trajectory[i + 1]
             p0 == call.position_trajectory[i]
             p1 == call.position_trajectory[i + 1]
             frac == RDiv(RSub(t, t0), RSub(t1, t0))
         IN  (RLeq(t0, t) /\ RLess(t, t1))
             => /\ ret.position_cmd = VAdd(p0, VScale(VSub(p1, p0), frac))
                /\ ret.velocity_cmd = VDiv(VSub(p1, p0), RSub(t1, t0))

\* The spec's midpoint scenario at the model's scale: waypoints (0,0,0) and
\* (10,-5,2) at times 0 and 2, queried at the tie t = 1.
C2_Witness ==
    /\ TrajectoryDone
    /\ call.time_trajectory = <<FromInt(0), FromInt(2)>>
    /\ call.position_trajectory = <<Vec(<<0, 0, 0>>), Vec(<<10, -5, 2>>)>>
    /\ call.current_time = FromInt(1)
    /\ ret.position_cmd = <<FromInt(5), Rat(-5, 2), FromInt(1)>>
    /\ ret.velocity_cmd = <<FromInt(5), Rat(-5, 2), FromInt(1)>>

\* C7: a call whose selected segment has time1 = time0 does not return
\* commands computed from it: it ends in a DegenerateSegment error.
C7_DegenerateSegmentRejected ==
    (/\ TrajectoryDone
     /\ LET s == Segment(call.position_trajectory, call.yaw_trajectory,
                         call.time_trajectory, call.current_time)
        IN  s.time1 = s.time0)
    => ret.outcome = "DegenerateSegment"

\* C10: with two or more waypoints at strictly increasing times, a query
\* before the first waypoint time returns commands that depend on waypoints
\* 0 and 1 only: the same as for the trajectory cut to its first two waypoints.
C10_BeforeFirstUsesFirstSegment ==
    (/\ TrajectoryDone
     /\ Len(call.time_trajectory) >= 2
     /\ StrictlyIncreasing(call.time_trajectory)
     /\ RLess(call.current_time, call.time_trajectory[1]))
    => ret = trajectory_result(SubSeq(call.position_trajectory, 1, 2),
                               SubSeq(call.yaw_trajectory, 1, 2),
                               SubSeq(call.time_trajectory, 1, 2),
                               call.current_time)

---------------------------------------------------------------------------
(* Properties of the controller, checked under Spec *)

RECURSIVE SumSeq(_)
SumSeq(q) == IF q = <<>> THEN Zero ELSE RAdd(q[1], SumSeq(Tail(q)))

AltitudeDone == call.op = "altitude_control" /\ ret.outcome # "pending"

\* (u_bar + GRAVITY) / R[2][2] of the altitude_control call that has just
\* returned; z_error_sum already holds this call's error.
RawThrustOfCall ==
    thrust_raw(u_bar(z_error_sum, call.altitude_cmd, call.vertical_velocity_cmd,
                     call.altitude, call.vertical_velocity, call.acceleration_ff),
               R(call.attitude)[3][3])

\* C3: whatever the accumulator has reached, an altitude_control call made
\* with R[2][2] # 0 returns a thrust in [0.1, MAX_THRUST/DRONE_MASS_KG]: the
\* upper end when the raw value is above the interval, 0.1 when it is below.
C3_ThrustClamp ==
    (AltitudeDone /\ R(call.attitude)[3][3] # Zero)
    => /\ RLeq(Rat(1, 10), ret.thrust_cmd)
       /\ RLeq(ret.thrust_cmd, RDiv(MAX_THRUST, DRONE_MASS_KG))
       /\ RLess(RDiv(MAX_THRUST, DRONE_MASS_KG), RawThrustOfCall)
            => ret.thrust_cmd = RDiv(MAX_THRUST, DRONE_MASS_KG)
       /\ RLess(RawThrustOfCall, Rat(1, 10)) => ret.thrust_cmd = Rat(1, 10)

\* A tilted vehicle (R[2][2] = 4/5) with a non-zero accumulator whose raw
\* thrust is above the interval.
C3_Witness ==
    /\ AltitudeDone
    /\ R(call.attitude)[3][3] = Rat(4, 5)
    /\ z_error_sum # Zero
    /\ RLess(FromInt(20), RawThrustOfCall)
    /\ ret.thrust_cmd = FromInt(20)

\* C4: z_error_sum is 0 at construction and always equals the sum of
\* (altitude_cmd - altitude) over the altitude_control calls made so far;
\* no other method changes it and nothing resets it.
C4_AccumulatorIsSumOfErrors == z_error_sum = SumSeq(alt_log)

\* Two altitude_control calls with the same positive error (each saturated
\* by the clamp: an error of 1 makes u_bar at least 64), followed by a call
\* of another method.
C4_Witness ==
    /\ alt_log = <<FromInt(1), FromInt(1)>>
    /\ z_error_sum = FromInt(2)
    /\ call.op = "yaw_control"
    /\ ret.outcome = "returned"

\* C5: for R[2][2] # 0 and thrust_cmd # 0, roll_pitch_controller returns
\* (-p_c, -q_c), the negated rates it computes from its inputs.
C5_RollPitchReturnsNegatedRates ==
    (/\ call.op = "roll_pitch_controller"
     /\ ret.outcome # "pending"
     /\ R(call.attitude)[3][3] # Zero
     /\ call.thrust_cmd # Zero)
    => LET raw == roll_pitch_raw(call.acceleration_cmd, call.attitude, call.thrust_cmd)
       IN  ret.rates = <<RNeg(raw.p_c), RNeg(raw.q_c)>>

\* C6: yaw_control returns k_p_yaw * w, where w is the yaw error wrapped into
\* (-pi, pi]: w differs from yaw_cmd - yaw by a whole number of turns, and
\* an error already in (-pi, pi] is returned as it is.
C6_YawErrorWrappedToHalfOpenTurn ==
    (call.op = "yaw_control" /\ ret.outcome # "pending")
    => LET e == RSub(call.yaw_cmd, call.yaw)
           w == RDiv(ret.yaw_rate, k_p_yaw)
           turns == RDiv(RSub(e, w), RMul(FromInt(2), PI))
       IN  /\ RLess(RNeg(PI), w)
           /\ RLeq(w, PI)
           /\ turns.d = 1
           /\ (RLess(RNeg(PI), e) /\ RLeq(e, PI)) => w = e

IsHoverCall ==
    /\ call.op = "altitude_control"
    /\ call.altitude_cmd = FromInt(-5)
    /\ call.altitude = FromInt(-5)
    /\ call.vertical_velocity_cmd = Zero
    /\ call.vertical_velocity = Zero
    /\ call.attitude = <<"0", "0", "0">>
    /\ call.acceleration_ff = Zero

\* C9: a hover call made while the accumulator is 0 (a fresh controller, or
\* one whose earlier errors sum to 0) returns (0 + GRAVITY)/1.0 clamped into
\* [0.1, MAX_THRUST/DRONE_MASS_KG] and leaves the accumulator at 0, so that
\* the next hover call meets the same state.
C9_HoverThrust ==
    (/\ AltitudeDone
     /\ IsHoverCall
     /\ SumSeq(SubSeq(alt_log, 1, Len(alt_log) - 1)) = Zero)
    => /\ LET raw == RDiv(RAdd(Zero, GRAVITY), FromInt(1))
              lo == Rat(1, 10)
              hi == RDiv(MAX_THRUST, DRONE_MASS_KG)
          IN  ret.thrust_cmd = IF RLess(raw, lo) THEN lo ELSE IF RLess(hi, raw) THEN hi ELSE raw
       /\ z_error_sum = Zero

\* The third hover call in a row on a fresh controller.
C9_Witness ==
    /\ AltitudeDone
    /\ IsHoverCall
    /\ alt_log = <<Zero, Zero, Zero>>
    /\ ret.thrust_cmd = Rat(1, 10)
    /\ z_error_sum = Zero

=============================================================================
